---- MODULE Spec2Model ----
(***************************************************************************)
(* The in-memory document store of src/backend/database.py (MockCollection)*)
(* as a state machine.  Python objects live on a heap of addresses, so     *)
(* that a reference kept by a caller and a reference kept by the store may *)
(* name the same list or mapping: insert_one copies only the top level of  *)
(* a document, find_one and find return copy.deepcopy of what is stored.   *)
(***************************************************************************)
EXTENDS Integers, Sequences, FiniteSets, TLC

VARIABLES
    data,     \* MockCollection.data: key -> stored document (field -> value)
    order,    \* insertion order of the keys of data (a Python dict is ordered)
    heap,     \* address -> list object, mapping object, or free
    known,    \* addresses of nested objects the caller passed to insert_one
    ret,      \* the last call: operation, arguments, returned value
    orig,     \* key -> what insert_one was given for it, until the key is updated
    ninserts, \* number of insert_one calls that stored a document
    pc,       \* position in the module body (lines 9-26 and 133-134)
    USE_MONGODB,
    activities_collection,  \* what the handle is bound to
    teachers_collection,
    initial_activities,     \* the seed mapping: name -> details
    _teachers_data,         \* the data of the second MockCollection
    db,       \* the external database: the keys stored in each collection
    pending   \* the update_one call a second thread is in the middle of

module == <<pc, USE_MONGODB, activities_collection, teachers_collection>>

vars == <<data, order, heap, known, ret, orig, ninserts, module,
          initial_activities, _teachers_data, db, pending>>

-----------------------------------------------------------------------------
(* Bounds of the model *)

MaxAddr == 12
MaxLen == 2
MaxInserts == 2

Addrs == 1..MaxAddr

-----------------------------------------------------------------------------
(* Python values.  A value held in a document field is a scalar or a       *)
(* reference to a heap object; the tag is compared first.                  *)

IntV(n) == [tag |-> "int", val |-> n]
StrV(s) == [tag |-> "str", val |-> s]
RefV(a) == [tag |-> "ref", val |-> a]
NoneV == [tag |-> "none", val |-> 0]

IsRef(v) == v.tag = "ref"

ListObj(items) == [tag |-> "list", val |-> items]
DictObj(fields) == [tag |-> "dict", val |-> fields]
FreeObj == [tag |-> "free", val |-> 0]

EmptyDoc == [f \in {} |-> NoneV]

IsList(h, v) == IsRef(v) /\ h[v.val].tag = "list"
IsDict(h, v) == IsRef(v) /\ h[v.val].tag = "dict"

\* The smallest element of a non-empty set of integers.
Min(S) == CHOOSE x \in S : \A y \in S : x <= y

\* A set of integers as an ascending sequence.
RECURSIVE SortedSeq(_)
SortedSeq(S) == IF S = {} THEN <<>> ELSE <<Min(S)>> \o SortedSeq(S \ {Min(S)})

Range(f) == {f[x] : x \in DOMAIN f}

\* The addresses a document (or mapping) refers to directly.
Refs(doc) == {doc[f].val : f \in {g \in DOMAIN doc : IsRef(doc[g])}}

\* The addresses reachable from a set of addresses; a list holds scalars
\* only, a mapping may refer to further objects.
RECURSIVE Reach(_, _)
Reach(h, S) ==
    LET more == UNION {Refs(h[a].val) : a \in {b \in S : h[b].tag = "dict"}}
    IN  IF more \subseteq S THEN S ELSE Reach(h, S \cup more)

FreeAddrs(h) == {a \in Addrs : h[a].tag = "free"}

\* The value of v with every reference followed: what == compares in Python.
RECURSIVE Val(_, _)
Val(h, v) ==
    IF ~IsRef(v) THEN v
    ELSE IF h[v.val].tag = "list" THEN [tag |-> "list", val |-> h[v.val].val]
    ELSE IF h[v.val].tag = "dict"
         THEN [tag |-> "dict",
               val |-> [f \in DOMAIN h[v.val].val |-> Val(h, h[v.val].val[f])]]
    ELSE [tag |-> "dangling", val |-> 0]

DocVal(h, doc) == [f \in DOMAIN doc |-> Val(h, doc[f])]

-----------------------------------------------------------------------------
(* The heap *)

\* The reference v, redirected by the address map m.
Remap(m, v) == IF IsRef(v) /\ v.val \in DOMAIN m THEN RefV(m[v.val]) ELSE v

\* The copy of an object, its references redirected to the copies.
CopyObj(m, o) ==
    IF o.tag = "dict" THEN DictObj([f \in DOMAIN o.val |-> Remap(m, o.val[f])])
    ELSE o

\* The free addresses handed to the objects reachable from `roots`, the
\* lowest first: one new object per object, shared references stay shared.
CopyMap(h, roots) ==
    LET R == Reach(h, roots)
        F == SortedSeq(FreeAddrs(h))
    IN  [a \in R |-> F[Cardinality({b \in R : b <= a})]]

CanCopy(h, roots) == Cardinality(Reach(h, roots)) <= Cardinality(FreeAddrs(h))

\* dict(doc): a new top-level mapping whose values are the same objects.
shallowcopy(h, doc) == [heap |-> h, doc |-> doc]

\* copy.deepcopy(doc): a new top-level mapping and a copy of every object
\* reachable from it.
deepcopy(h, doc) ==
    LET m == CopyMap(h, Refs(doc))
        src(a) == CHOOSE b \in DOMAIN m : m[b] = a
    IN  [heap |-> [a \in Addrs |->
                     IF a \in Range(m) THEN CopyObj(m, h[src(a)]) ELSE h[a]],
         doc  |-> [f \in DOMAIN doc |-> Remap(m, doc[f])]]

\* What the garbage collector leaves: the objects reachable from `roots`.
Collect(h, roots) ==
    LET live == Reach(h, roots)
    IN  [a \in Addrs |-> IF a \in live THEN h[a] ELSE FreeObj]

\* The addresses the stored documents refer to.
StoreRoots(d) == UNION {Refs(d[k]) : k \in DOMAIN d}

\* The addresses a sequence of returned documents refers to.
DocsRoots(docs) == UNION {Refs(docs[i]) : i \in DOMAIN docs}

\* Addresses are not observable (only identity is), so every state keeps
\* its objects in the order a walk meets them: the stored documents in
\* insertion order, then the returned ones.
RECURSIVE VisitFields(_, _, _, _)
VisitFields(h, m, fs, seen) ==
    IF fs = {} THEN seen
    ELSE
    LET f == CHOOSE g \in fs : TRUE
        v == m[f]
    IN  IF IsRef(v) /\ v.val \notin Range(seen)
        THEN LET s1 == Append(seen, v.val)
                 s2 == IF h[v.val].tag = "dict"
                       THEN VisitFields(h, h[v.val].val, DOMAIN h[v.val].val, s1)
                       ELSE s1
             IN  VisitFields(h, m, fs \ {f}, s2)
        ELSE VisitFields(h, m, fs \ {f}, seen)

RECURSIVE VisitDocs(_, _, _)
VisitDocs(h, docs, seen) ==
    IF docs = <<>> THEN seen
    ELSE VisitDocs(h, Tail(docs),
                   VisitFields(h, Head(docs), DOMAIN Head(docs), seen))

\* The names of initial_activities, in the order the source writes them.
SeedOrder == <<"a", "b">>

\* The details of the seed mapping, in that order.
SeedDocs(seed) ==
    LET Has(k) == k \in DOMAIN seed
        ks == SelectSeq(SeedOrder, Has)
    IN  [i \in DOMAIN ks |-> seed[ks[i]]]

\* [heap, data, known, docs, seed] with the objects renumbered in walk order.
Canonical(h, d, ord, kn, docs, seed) ==
    LET walk == VisitDocs(h, [i \in DOMAIN ord |-> d[ord[i]]] \o docs
                               \o SeedDocs(seed), <<>>)
        m == [a \in Range(walk) |-> CHOOSE i \in DOMAIN walk : walk[i] = a]
        ren(doc) == [f \in DOMAIN doc |-> Remap(m, doc[f])]
    IN  [heap  |-> [a \in Addrs |->
                      IF a \in DOMAIN walk THEN CopyObj(m, h[walk[a]]) ELSE FreeObj],
         data  |-> [k \in DOMAIN d |-> ren(d[k])],
         known |-> {m[a] : a \in kn \cap Range(walk)},
         docs  |-> [i \in DOMAIN docs |-> ren(docs[i])],
         seed  |-> [k \in DOMAIN seed |-> ren(seed[k])]]

-----------------------------------------------------------------------------
(* Documents as the caller writes them: a literal is a mapping from field  *)
(* to a scalar, a list literal, a mapping literal, or an object the caller *)
(* already holds (tag "alias").  Evaluating the literal allocates.         *)

ListL(items) == [tag |-> "list", val |-> items]
DictL(fields) == [tag |-> "dict", val |-> fields]
AliasL(a) == [tag |-> "alias", val |-> a]

\* Number of objects the literal allocates.
LitSize(lit) ==
    IF lit.tag = "list" THEN 1
    ELSE IF lit.tag = "dict"
         THEN 1 + Cardinality({f \in DOMAIN lit.val : lit.val[f].tag = "list"})
    ELSE 0

RECURSIVE DocLitSize(_, _)
DocLitSize(lit, fs) ==
    IF fs = {} THEN 0
    ELSE LET f == CHOOSE g \in fs : TRUE
         IN  LitSize(lit[f]) + DocLitSize(lit, fs \ {f})

\* Evaluate the fields fs of a mapping literal on heap h: [heap, doc].
RECURSIVE BuildFields(_, _, _, _)
BuildFields(h, lit, fs, acc) ==
    IF fs = {} THEN [heap |-> h, doc |-> acc]
    ELSE
    LET f == CHOOSE g \in fs : TRUE
        l == lit[f]
        a == Min(FreeAddrs(h))
        ext(v) == [g \in DOMAIN acc \cup {f} |-> IF g = f THEN v ELSE acc[g]]
    IN  IF l.tag = "alias"
        THEN BuildFields(h, lit, fs \ {f}, ext(RefV(l.val)))
        ELSE IF l.tag = "list"
        THEN BuildFields([h EXCEPT ![a] = ListObj(l.val)], lit, fs \ {f}, ext(RefV(a)))
        ELSE IF l.tag = "dict"
        THEN LET sub == BuildFields([h EXCEPT ![a] = DictObj(EmptyDoc)],
                                    l.val, DOMAIN l.val, EmptyDoc)
             IN  BuildFields([sub.heap EXCEPT ![a] = DictObj(sub.doc)],
                             lit, fs \ {f}, ext(RefV(a)))
        ELSE BuildFields(h, lit, fs \ {f}, ext(l))

Build(h, lit) == BuildFields(h, lit, DOMAIN lit, EmptyDoc)

-----------------------------------------------------------------------------
(* Python's operators on the values above *)

\* Strings in Python's (code point) order; s < t compares positions.
StrOrder == <<"", "08:00", "15:30", "Fri", "Mon", "Sat", "a", "amy", "b", "bob", "days">>

StrRank(s) == CHOOSE i \in DOMAIN StrOrder : StrOrder[i] = s

\* s in t, for strings: s occurs in t.  None of the strings above occurs
\* in another one, except the empty string, which occurs in all.
Substring(s, t) == s = "" \/ s = t

\* bool(v)
Truthy(h, v) ==
    IF v.tag = "none" THEN FALSE
    ELSE IF v.tag = "str" THEN v.val # ""
    ELSE IF v.tag = "int" THEN v.val # 0
    ELSE IF h[v.val].tag = "list" THEN h[v.val].val # <<>>
    ELSE DOMAIN h[v.val].val # {}

\* document.get(f)
DictGet(doc, f) == IF f \in DOMAIN doc THEN doc[f] ELSE NoneV

\* item in cur: "true", "false", or the exception raised.
Contains(h, cur, item) ==
    IF IsList(h, cur)
    THEN IF \E i \in DOMAIN h[cur.val].val : h[cur.val].val[i] = item
         THEN "true" ELSE "false"
    ELSE IF IsDict(h, cur)
    THEN IF item.tag = "str" /\ item.val \in DOMAIN h[cur.val].val
         THEN "true" ELSE "false"
    ELSE IF cur.tag = "str"
    THEN IF item.tag # "str" THEN "TypeError"
         ELSE IF Substring(item.val, cur.val) THEN "true" ELSE "false"
    ELSE "TypeError"

\* a < b: "true", "false", or the exception raised.
Less(a, b) ==
    IF a.tag = "int" /\ b.tag = "int"
    THEN IF a.val < b.val THEN "true" ELSE "false"
    ELSE IF a.tag = "str" /\ b.tag = "str"
    THEN IF StrRank(a.val) < StrRank(b.val) THEN "true" ELSE "false"
    ELSE "TypeError"

\* all(item in cur for item in items): containment of the whole list.
RECURSIVE AllIn(_, _, _)
AllIn(h, cur, items) ==
    IF items = <<>> THEN "true"
    ELSE LET c == Contains(h, cur, Head(items))
         IN  IF c = "true" THEN AllIn(h, cur, Tail(items)) ELSE c

\* any(item in cur for item in items), left to right.
RECURSIVE AnyIn(_, _, _)
AnyIn(h, cur, items) ==
    IF items = <<>> THEN "false"
    ELSE LET c == Contains(h, cur, Head(items))
         IN  IF c = "false" THEN AnyIn(h, cur, Tail(items)) ELSE c

\* list.remove(v): the list without the first item equal to v.
RECURSIVE RemoveFirst(_, _)
RemoveFirst(s, v) ==
    IF s = <<>> THEN <<>>
    ELSE IF Head(s) = v THEN Tail(s)
    ELSE <<Head(s)>> \o RemoveFirst(Tail(s), v)

\* The list without any item equal to v.
RECURSIVE RemoveAll(_, _)
RemoveAll(s, v) ==
    IF s = <<>> THEN <<>>
    ELSE IF Head(s) = v THEN RemoveAll(Tail(s), v)
    ELSE <<Head(s)>> \o RemoveAll(Tail(s), v)

-----------------------------------------------------------------------------
(* MockCollection *)

\* A document without its "_id".
WithoutId(doc) == [f \in DOMAIN doc \ {"_id"} |-> doc[f]]

\* A stored document with its key put back as "_id".
WithId(doc, k) ==
    [f \in DOMAIN doc \cup {"_id"} |-> IF f = "_id" THEN StrV(k) ELSE doc[f]]

\* count_documents(query): the query is not looked at.
count_documents(d, query) == Cardinality(DOMAIN d)

\* insert_one without the test of line 37: a document without "_id" is
\* stored under None.
insert_one_unchecked(h, d, ord, document) ==
    LET doc_id == DictGet(document, "_id")
        key == IF doc_id.tag = "none" THEN "None" ELSE doc_id.val
    IN  [data  |-> [k \in DOMAIN d \cup {key} |->
                      IF k = key THEN WithoutId(document) ELSE d[k]],
         order |-> IF key \in DOMAIN d THEN ord ELSE Append(ord, key)]

\* insert_one(document): [data, order] afterwards.  The stored mapping is
\* new, its values are the document's own objects.
insert_one(h, d, ord, document) ==
    LET doc_id == DictGet(document, "_id")
    IN  IF Truthy(h, doc_id)
        THEN [data  |-> [k \in DOMAIN d \cup {doc_id.val} |->
                           IF k = doc_id.val THEN WithoutId(document) ELSE d[k]],
              order |-> IF doc_id.val \in DOMAIN d THEN ord
                        ELSE Append(ord, doc_id.val)]
        ELSE [data |-> d, order |-> ord]

\* Queries.  A query is None or a mapping; a mapping is the sequence of its
\* clauses in order, each a key (split at the dots) and a value: a literal
\* or a mapping of operators.
NoQuery == [none |-> TRUE, items |-> <<>>]
Query(items) == [none |-> FALSE, items |-> items]
Clause(key, value) == [key |-> key, value |-> value]
Lit(v) == [tag |-> "lit", val |-> v]
Ops(f) == [tag |-> "ops", val |-> f]
ById(k) == Query(<<Clause(<<"_id">>, Lit(StrV(k)))>>)

\* '_id' in query, and query['_id'] (the last clause of that key).
HasId(query) ==
    ~query.none /\ \E i \in DOMAIN query.items : query.items[i].key = <<"_id">>

IdOf(query) ==
    LET i == CHOOSE j \in DOMAIN query.items : query.items[j].key = <<"_id">>
    IN  query.items[i].value.val.val

\* find_one(query): [heap, found, doc].
find_one(h, d, query) ==
    IF HasId(query) /\ IdOf(query) \in DOMAIN d
    THEN LET c == deepcopy(h, d[IdOf(query)])
         IN  [heap |-> c.heap, found |-> TRUE, doc |-> WithId(c.doc, IdOf(query))]
    ELSE [heap |-> h, found |-> FALSE, doc |-> EmptyDoc]

\* The walk along the parts of a dotted key (lines 66-71): from cur, each
\* part must be a key of a mapping.
RECURSIVE Walk(_, _, _)
Walk(h, cur, parts) ==
    IF parts = <<>> THEN [ok |-> TRUE, val |-> cur]
    ELSE IF IsDict(h, cur) /\ Head(parts) \in DOMAIN h[cur.val].val
    THEN Walk(h, h[cur.val].val[Head(parts)], Tail(parts))
    ELSE [ok |-> FALSE, val |-> NoneV]

\* The walk that goes on with None where a part cannot be resolved.
WalkOrNone(h, doc, parts) ==
    LET w == IF Head(parts) \in DOMAIN doc
             THEN Walk(h, doc[Head(parts)], Tail(parts))
             ELSE [ok |-> FALSE, val |-> NoneV]
    IN  [ok |-> TRUE, val |-> w.val]

\* The first step of the walk starts at the document itself.
WalkDoc(h, doc, parts) ==
    IF Head(parts) \in DOMAIN doc THEN Walk(h, doc[Head(parts)], Tail(parts))
    ELSE [ok |-> FALSE, val |-> NoneV]

\* b < a: the strict comparison.
StrictlyGreater(a, b) == Less(b, a)

\* not (a < b), not (a > b), with the exception passed on.
NotLess(a, b) ==
    LET c == Less(a, b)
    IN  IF c = "true" THEN "false" ELSE IF c = "false" THEN "true" ELSE c

\* Lines 74-86: the value of a clause against the value a dotted key leads
\* to.  "true": the clause does not reject the document.
CheckNested(h, current_val, value) ==
    IF value.tag = "ops"
    THEN IF "$in" \in DOMAIN value.val
         THEN AnyIn(h, current_val, value.val["$in"])
         ELSE IF "$gte" \in DOMAIN value.val
         THEN NotLess(current_val, value.val["$gte"])
         ELSE IF "$lte" \in DOMAIN value.val
         THEN NotLess(value.val["$lte"], current_val)
         ELSE "true"
    ELSE IF Val(h, current_val) # value.val THEN "false" ELSE "true"

\* Lines 90-102: the same for a top-level key.
CheckTop(h, doc, key, value) ==
    IF value.tag = "ops"
    THEN IF "$in" \in DOMAIN value.val
         THEN AnyIn(h, doc[key], value.val["$in"])
         ELSE IF "$gte" \in DOMAIN value.val
         THEN NotLess(doc[key], value.val["$gte"])
         ELSE IF "$lte" \in DOMAIN value.val
         THEN NotLess(value.val["$lte"], doc[key])
         ELSE "true"
    ELSE IF Val(h, doc[key]) # value.val THEN "false" ELSE "true"

\* One clause of the query against the document.
MatchClause(h, doc, c) ==
    IF Len(c.key) > 1
    THEN LET w == WalkDoc(h, doc, c.key)
         IN  IF w.ok THEN CheckNested(h, w.val, c.value) ELSE "false"
    ELSE IF c.key[1] \in DOMAIN doc THEN CheckTop(h, doc, c.key[1], c.value)
    ELSE "false"

\* The query as a disjunction: the first clause that accepts ends the loop.
RECURSIVE _match_any(_, _, _)
_match_any(h, doc, items) ==
    IF items = <<>> THEN "false"
    ELSE LET c == MatchClause(h, doc, Head(items))
         IN  IF c = "false" THEN _match_any(h, doc, Tail(items)) ELSE c

\* _match_query(doc, query): "true", "false", or the exception raised; the
\* first clause that rejects or raises ends the loop.
RECURSIVE _match_query(_, _, _)
_match_query(h, doc, items) ==
    IF items = <<>> THEN "true"
    ELSE LET c == MatchClause(h, doc, Head(items))
         IN  IF c = "true" THEN _match_query(h, doc, Tail(items)) ELSE c

\* find(query), from the keys ks on: [heap, docs, err, fits].  Every
\* document is copied, the copies that match are kept.
RECURSIVE FindFrom(_, _, _, _, _)
FindFrom(h, d, ks, query, acc) ==
    IF ks = <<>> THEN [heap |-> h, docs |-> acc, err |-> "", fits |-> TRUE]
    ELSE IF ~CanCopy(h, Refs(d[Head(ks)]))
    THEN [heap |-> h, docs |-> acc, err |-> "", fits |-> FALSE]
    ELSE
    LET c == deepcopy(h, d[Head(ks)])
        doc == WithId(c.doc, Head(ks))
        m == IF query.none THEN "true" ELSE _match_query(c.heap, doc, query.items)
    IN  IF m = "true" THEN FindFrom(c.heap, d, Tail(ks), query, Append(acc, doc))
        ELSE IF m = "false" THEN FindFrom(h, d, Tail(ks), query, acc)
        ELSE [heap |-> h, docs |-> <<>>, err |-> m, fits |-> TRUE]

find(h, d, ord, query) == FindFrom(h, d, ord, query, <<>>)

\* Updates: [push, pull], each the sequence of the (field, value) pairs of
\* its operator's mapping, empty when the operator is absent.
Pair(field, value) == [field |-> field, value |-> value]
Update(push, pull) == [push |-> push, pull |-> pull]

\* Lines 113-116, one (field, value) of $push: [heap, data, err].
PushStep(h, d, doc_id, field, value) ==
    IF field \in DOMAIN d[doc_id]
    THEN LET cur == d[doc_id][field]
         IN  IF IsList(h, cur)
             THEN [heap |-> [h EXCEPT ![cur.val] =
                               ListObj(Append(h[cur.val].val, value))],
                   data |-> d, err |-> ""]
             ELSE [heap |-> h, data |-> d, err |-> "AttributeError"]
    ELSE LET a == Min(FreeAddrs(h))
         IN  [heap |-> [h EXCEPT ![a] = ListObj(<<value>>)],
              data |-> [d EXCEPT ![doc_id] =
                          [f \in DOMAIN d[doc_id] \cup {field} |->
                             IF f = field THEN RefV(a) ELSE d[doc_id][f]]],
              err  |-> ""]

\* Lines 119-120, one (field, value) of $pull: [heap, data, err].
PullStep(h, d, doc_id, field, value) ==
    IF field \notin DOMAIN d[doc_id] THEN [heap |-> h, data |-> d, err |-> ""]
    ELSE
    LET cur == d[doc_id][field]
        c == Contains(h, cur, value)
    IN  IF c = "false" THEN [heap |-> h, data |-> d, err |-> ""]
        ELSE IF c # "true" THEN [heap |-> h, data |-> d, err |-> c]
        ELSE IF IsList(h, cur)
        THEN [heap |-> [h EXCEPT ![cur.val] =
                          ListObj(RemoveFirst(h[cur.val].val, value))],
              data |-> d, err |-> ""]
        ELSE [heap |-> h, data |-> d, err |-> "AttributeError"]

\* The loop of line 112 over the pairs of $push; an exception ends it and
\* leaves what the earlier pairs did.
RECURSIVE PushAll(_, _, _, _)
PushAll(h, d, doc_id, pairs) ==
    IF pairs = <<>> THEN [heap |-> h, data |-> d, err |-> ""]
    ELSE LET s == PushStep(h, d, doc_id, Head(pairs).field, Head(pairs).value)
         IN  IF s.err # "" THEN s
             ELSE PushAll(s.heap, s.data, doc_id, Tail(pairs))

\* The loop of line 118 over the pairs of $pull.
RECURSIVE PullAll(_, _, _, _)
PullAll(h, d, doc_id, pairs) ==
    IF pairs = <<>> THEN [heap |-> h, data |-> d, err |-> ""]
    ELSE LET s == PullStep(h, d, doc_id, Head(pairs).field, Head(pairs).value)
         IN  IF s.err # "" THEN s
             ELSE PullAll(s.heap, s.data, doc_id, Tail(pairs))

\* update_one as an upsert: a key that is not stored gets an empty document
\* first.
update_one_upsert(h, d, query, update) ==
    IF HasId(query)
    THEN LET k == IdOf(query)
             d0 == [j \in DOMAIN d \cup {k} |-> IF j \in DOMAIN d THEN d[j] ELSE EmptyDoc]
             s1 == PushAll(h, d0, k, update.push)
             s2 == IF s1.err # "" THEN s1 ELSE PullAll(s1.heap, s1.data, k, update.pull)
         IN  [heap |-> s2.heap, data |-> s2.data,
              modified_count |-> IF s2.err = "" THEN 1 ELSE 0, err |-> s2.err]
    ELSE [heap |-> h, data |-> d, modified_count |-> 0, err |-> ""]

\* update_one that reports whether the document is different afterwards.
update_one_changed(h, d, query, update) ==
    IF HasId(query) /\ IdOf(query) \in DOMAIN d
    THEN LET k == IdOf(query)
             s1 == PushAll(h, d, k, update.push)
             s2 == IF s1.err # "" THEN s1 ELSE PullAll(s1.heap, s1.data, k, update.pull)
         IN  [heap |-> s2.heap, data |-> s2.data, err |-> s2.err,
              modified_count |->
                 IF s2.err = "" /\ DocVal(s2.heap, s2.data[k]) # DocVal(h, d[k])
                 THEN 1 ELSE 0]
    ELSE [heap |-> h, data |-> d, modified_count |-> 0, err |-> ""]

\* update_one(query, update): [heap, data, modified_count, err]; when an
\* exception is raised nothing is returned, and err names it.
update_one(h, d, query, update) ==
    IF HasId(query) /\ IdOf(query) \in DOMAIN d
    THEN LET s1 == PushAll(h, d, IdOf(query), update.push)
             s2 == IF s1.err # "" THEN s1
                   ELSE PullAll(s1.heap, s1.data, IdOf(query), update.pull)
         IN  [heap |-> s2.heap, data |-> s2.data,
              modified_count |-> IF s2.err = "" THEN 1 ELSE 0, err |-> s2.err]
    ELSE [heap |-> h, data |-> d, modified_count |-> 0, err |-> ""]

\* for day in v: the items the loop of line 129 meets, as a set (they are
\* added to a set), or the exception raised.  A list gives its items, a
\* mapping its keys, a number or None is not iterable.  A string would give
\* its characters: only the empty one is taken here, no document of the
\* model holds another at this place.
Iterate(h, v) ==
    IF IsList(h, v) THEN [err |-> "", items |-> Range(h[v.val].val)]
    ELSE IF IsDict(h, v)
    THEN [err |-> "", items |-> {StrV(f) : f \in DOMAIN h[v.val].val}]
    ELSE IF v = StrV("") THEN [err |-> "", items |-> {}]
    ELSE [err |-> "TypeError", items |-> {}]

\* Lines 128-130 for one stored document: [err, items].
DaysOf(h, doc_data) ==
    IF "schedule_details" \notin DOMAIN doc_data THEN [err |-> "", items |-> {}]
    ELSE
    LET sd == doc_data["schedule_details"]
        c == Contains(h, sd, StrV("days"))
    IN  IF c = "false" THEN [err |-> "", items |-> {}]
        ELSE IF c # "true" THEN [err |-> c, items |-> {}]
        ELSE IF ~IsDict(h, sd) THEN [err |-> "TypeError", items |-> {}]
        ELSE Iterate(h, h[sd.val].val["days"])

\* sorted(S), for items that compare with one another.
RECURSIVE Sorted(_)
Sorted(S) ==
    IF S = {} THEN <<>>
    ELSE LET x == CHOOSE y \in S : \A z \in S \ {y} : Less(y, z) = "true"
         IN  <<x>> \o Sorted(S \ {x})

\* The items compare with one another: all numbers or all strings.
Sortable(S) == \A x \in S, y \in S : Less(x, y) # "TypeError"

\* The days of every document one after the other, repeats kept.
RECURSIVE DayLists(_, _, _)
DayLists(h, d, ks) ==
    IF ks = <<>> THEN <<>>
    ELSE LET sd == d[Head(ks)]["schedule_details"]
         IN  (IF "schedule_details" \in DOMAIN d[Head(ks)] /\ IsDict(h, sd)
                 /\ "days" \in DOMAIN h[sd.val].val
                 /\ IsList(h, h[sd.val].val["days"])
              THEN h[h[sd.val].val["days"].val].val ELSE <<>>)
             \o DayLists(h, d, Tail(ks))

\* aggregate that collects the days in a list instead of a set.
aggregate_list(h, d, ord, pipeline) ==
    LET days == DayLists(h, d, ord)
    IN  [err |-> "", docs |-> [i \in DOMAIN days |-> [_id |-> days[i]]]]

\* aggregate(pipeline): [err, docs]; the pipeline is not looked at.
aggregate(h, d, ord, pipeline) ==
    LET each == [i \in DOMAIN ord |-> DaysOf(h, d[ord[i]])]
        bad == {i \in DOMAIN ord : each[i].err # ""}
        result == UNION {each[i].items : i \in DOMAIN ord}
    IN  IF bad # {} THEN [err |-> each[Min(bad)].err, docs |-> <<>>]
        ELSE IF ~Sortable(result) THEN [err |-> "TypeError", docs |-> <<>>]
        ELSE LET days == Sorted(result)
             IN  [err |-> "", docs |-> [i \in DOMAIN days |-> [_id |-> days[i]]]]

-----------------------------------------------------------------------------
(* The state machine: one collection and its caller *)

NoUpdate == Update(<<>>, <<>>)

Ret(op, key, query, update, docs, n, err) ==
    [op |-> op, key |-> key, query |-> query, update |-> update,
     docs |-> docs, n |-> n, err |-> err]

\* No external database, and no update_one call in progress.
NoDb == [activities |-> {}, teachers |-> {}]
Idle == [active |-> FALSE, key |-> "", push |-> <<>>, pull |-> <<>>,
         before |-> EmptyDoc, after |-> EmptyDoc]

\* A MockCollection over an empty store, in a module whose startup has
\* fallen back to the in-memory collections and that has no seed data.
Init ==
    /\ data = [k \in {} |-> EmptyDoc]
    /\ order = <<>>
    /\ heap = [a \in Addrs |-> FreeObj]
    /\ known = {}
    /\ ret = Ret("init", NoneV, NoQuery, NoUpdate, <<>>, 0, "")
    /\ orig = [k \in {} |-> EmptyDoc]
    /\ ninserts = 0
    /\ pc = "done"
    /\ USE_MONGODB = FALSE
    /\ activities_collection = "MockCollection"
    /\ teachers_collection = "MockCollection"
    /\ initial_activities = [k \in {} |-> EmptyDoc]
    /\ _teachers_data = [k \in {} |-> EmptyDoc]
    /\ db = NoDb
    /\ pending = Idle

\* The objects that stay alive whatever the caller drops: those of the
\* stored documents and those of the seed mapping.
LiveRoots(d) == StoreRoots(d) \cup StoreRoots(initial_activities)

\* The heap once the caller has dropped what the previous call returned.
StoreHeap == Collect(heap, LiveRoots(data))

\* The state after a call that left heap h, collection d in order ord, and
\* returned r to a caller who holds the objects kn.
Settle(h, d, ord, kn, r) ==
    LET live == Collect(h, LiveRoots(d) \cup DocsRoots(r.docs))
        c == Canonical(live, d, ord, kn \cap Reach(live, StoreRoots(d)), r.docs,
                       initial_activities)
    IN  /\ heap' = c.heap
        /\ data' = c.data
        /\ order' = ord
        /\ known' = c.known
        /\ ret' = [r EXCEPT !.docs = c.docs]
        /\ initial_activities' = c.seed

\* The same for a call on the mock collection that no other thread runs
\* into: the module, the other collection and the external database stay
\* as they are.
After(h, d, ord, kn, r) ==
    /\ pc = "done"
    /\ activities_collection = "MockCollection"
    /\ ~pending.active
    /\ Settle(h, d, ord, kn, r)
    /\ UNCHANGED <<module, _teachers_data, db, pending>>

\* The caller evaluates the document literal lit and calls insert_one.
InsertOne(lit) ==
    /\ ninserts < MaxInserts
    /\ DocLitSize(lit, DOMAIN lit) <= Cardinality(FreeAddrs(StoreHeap))
    /\ LET b == Build(StoreHeap, lit)
           r == insert_one(b.heap, data, order, b.doc)
           id == DictGet(lit, "_id")
           stored == /\ id.tag = "str"
                     /\ id.val \in DOMAIN r.data
                     /\ r.data[id.val] = WithoutId(b.doc)
       IN  /\ After(b.heap, r.data, r.order, known \cup Reach(b.heap, Refs(b.doc)),
                    Ret("insert_one", id, NoQuery, NoUpdate, <<>>, 0, ""))
           /\ orig' = IF id.tag = "str"
                      THEN [k \in DOMAIN orig \cup {id.val} |->
                              IF k = id.val THEN DocVal(b.heap, b.doc) ELSE orig[k]]
                      ELSE orig
           /\ ninserts' = IF stored THEN ninserts + 1 ELSE ninserts

QueryKey(query) == IF HasId(query) THEN StrV(IdOf(query)) ELSE NoneV

\* find_one(query); the caller keeps the returned document.
FindOne(query) ==
    /\ HasId(query) /\ IdOf(query) \in DOMAIN data
          => CanCopy(StoreHeap, Refs(data[IdOf(query)]))
    /\ LET r == find_one(StoreHeap, data, query)
       IN  After(r.heap, data, order, known,
                 Ret("find_one", QueryKey(query), query, NoUpdate,
                     IF r.found THEN <<r.doc>> ELSE <<>>, 0, ""))
    /\ UNCHANGED <<orig, ninserts>>

\* find(query); the caller keeps the returned documents.
Find(query) ==
    LET r == find(StoreHeap, data, order, query)
    IN  /\ r.fits
        /\ After(r.heap, data, order, known,
                 Ret("find", NoneV, query, NoUpdate, r.docs, 0, r.err))
        /\ UNCHANGED <<orig, ninserts>>

\* count_documents(query)
CountDocuments(query) ==
    /\ After(StoreHeap, data, order, known,
             Ret("count_documents", NoneV, query, NoUpdate, <<>>,
                 count_documents(data, query), ""))
    /\ UNCHANGED <<orig, ninserts>>

\* aggregate(pipeline); the caller keeps the returned records.
Aggregate(pipeline) ==
    LET r == aggregate(StoreHeap, data, order, pipeline)
    IN  /\ After(StoreHeap, data, order, known,
                 Ret("aggregate", NoneV, NoQuery, NoUpdate, r.docs, 0, r.err))
        /\ UNCHANGED <<orig, ninserts>>

\* update_one(query, update); lists grow to MaxLen at most.
UpdateOne(query, update) ==
    /\ Len(update.push) <= Cardinality(FreeAddrs(StoreHeap))
    /\ LET r == update_one(StoreHeap, data, query, update)
       IN  /\ \A a \in Addrs : r.heap[a].tag = "list" => Len(r.heap[a].val) <= MaxLen
           /\ After(r.heap, r.data, order, known,
                    Ret("update_one", QueryKey(query), query, update, <<>>,
                        r.modified_count, r.err))
           /\ orig' = IF HasId(query) /\ IdOf(query) \in DOMAIN orig
                         /\ IdOf(query) \in DOMAIN data
                      THEN [k \in DOMAIN orig \ {IdOf(query)} |-> orig[k]]
                      ELSE orig
    /\ UNCHANGED ninserts

\* The caller changes, in place, an object of a document it was returned:
\* appends to a list (or empties a full one), or rebinds a key of a mapping.
MutateResult(a, v) ==
    /\ ret.op \in {"find_one", "find"}
    /\ a \in Reach(heap, DocsRoots(ret.docs))
    /\ LET h2 == [heap EXCEPT ![a] =
                    IF heap[a].tag = "list"
                    THEN IF Len(heap[a].val) < MaxLen
                         THEN ListObj(Append(heap[a].val, v)) ELSE ListObj(<<>>)
                    ELSE DictObj([f \in DOMAIN heap[a].val \cup {"days"} |->
                                    IF f = "days" THEN v ELSE heap[a].val[f]])]
       IN  After(h2, data, order, known, [ret EXCEPT !.op = "mutate"])
    /\ UNCHANGED <<orig, ninserts>>

-----------------------------------------------------------------------------
(* The calls the caller makes *)

Keys == {"a", "b"}

WithIdLit(fields, id) ==
    IF id.tag = "none" THEN fields
    ELSE [f \in DOMAIN fields \cup {"_id"} |-> IF f = "_id" THEN id ELSE fields[f]]

Under(fields) == {WithIdLit(f, StrV(k)) : f \in fields, k \in Keys}

Activity ==
    [participants |-> ListL(<<StrV("bob")>>),
     schedule_details |-> DictL([days |-> ListL(<<StrV("Mon")>>)])]

Roster == [participants |-> ListL(<<StrV("bob")>>)]

Club == [schedule_details |-> DictL([days |-> ListL(<<StrV("Mon")>>)])]

\* Documents whose participants are a list the caller passed in before.
Sharing == {[participants |-> AliasL(a)] : a \in {b \in known : heap[b].tag = "list"}}

\* The filters of find_one and update_one: by a key, by the empty key,
\* without a key clause, or None.
KeyQueries == {ById(k) : k \in Keys \cup {""}} \cup {Query(<<>>), NoQuery}

Push(f, e) == Update(<<Pair(f, StrV(e))>>, <<>>)
Pull(f, e) == Update(<<>>, <<Pair(f, StrV(e))>>)

(* Keys and inserts: documents under a key, without "_id", with an empty   *)
(* "_id", or sharing a list; lookups and pushes by every kind of filter.   *)
Next ==
    \/ \E lit \in Under({Roster, EmptyDoc} \cup Sharing)
                    \cup {WithIdLit(Roster, id) : id \in {NoneV, StrV("")}} :
          InsertOne(lit)
    \/ \E q \in KeyQueries : FindOne(q)
    \/ \E q \in {Query(<<>>)} : CountDocuments(q)
    \/ \E q \in KeyQueries : UpdateOne(q, Push("participants", "amy"))
    \/ \E q \in {ById("a"), Query(<<>>)},
             u \in {Pull("participants", "amy"), NoUpdate} : UpdateOne(q, u)

Spec == Init /\ [][Next]_vars

(* Updates: $push and $pull, alone, together, on a list, on a missing      *)
(* field, on a mapping.                                                    *)
Updates ==
    {Push("participants", "amy"),
     Pull("participants", "amy"),
     Pull("participants", "bob"),
     Update(<<Pair("participants", StrV("amy"))>>,
            <<Pair("participants", StrV("bob"))>>),
     Update(<<Pair("participants", StrV("amy")),
              Pair("schedule_details", StrV("amy"))>>, <<>>),
     Pull("schedule_details", "days"),
     NoUpdate}

NextUpdate ==
    \/ \E lit \in Under({Roster, Club} \cup Sharing) : InsertOne(lit)
    \/ \E k \in Keys, u \in Updates : UpdateOne(ById(k), u)

SpecUpdate == Init /\ [][NextUpdate]_vars

(* Reads: the caller changes what find_one and find returned.              *)
NextRead ==
    \/ \E lit \in Under({Activity}) : InsertOne(lit)
    \/ \E k \in Keys : UpdateOne(ById(k), Push("participants", "amy"))
    \/ \E k \in Keys : FindOne(ById(k))
    \/ \E q \in {NoQuery} : Find(q)
    \/ \E a \in Addrs, v \in {StrV("amy")} : MutateResult(a, v)

SpecRead == Init /\ [][NextRead]_vars

(* Filters: find and count_documents over documents with a capacity, a     *)
(* nested schedule, a schedule that is no mapping, or neither.             *)
Scheduled(cap, days, start) ==
    [max_participants |-> IntV(cap),
     participants |-> ListL(<<StrV("amy")>>),
     schedule_details |-> DictL([days |-> ListL(days), start_time |-> StrV(start)])]

QueryLits ==
    Under({Scheduled(1, <<StrV("Mon")>>, "08:00"),
           Scheduled(2, <<StrV("Mon"), StrV("Sat")>>, "15:30"),
           [max_participants |-> IntV(3), schedule_details |-> DictL(EmptyDoc)],
           [schedule_details |-> IntV(0)]})

In(items) == Ops([o \in {"$in"} |-> items])
Gte(v) == Ops([o \in {"$gte"} |-> v])
Lte(v) == Ops([o \in {"$lte"} |-> v])

DaysPath == <<"schedule_details", "days">>
StartPath == <<"schedule_details", "start_time">>

FindQueries ==
    {Query(<<Clause(DaysPath, In(l))>>) :
        l \in {<<>>, <<StrV("Sat")>>, <<StrV("Fri"), StrV("Mon")>>, <<StrV("Fri")>>}}
    \cup {Query(<<Clause(<<"participants">>, In(l))>>) :
            l \in {<<StrV("amy")>>, <<StrV("bob")>>}}
    \cup {Query(<<Clause(<<"max_participants">>, v)>>) :
            v \in {Gte(IntV(2)), Lte(IntV(2)), Gte(IntV(1)), Lte(IntV(0)),
                   Lit(IntV(1)), In(<<IntV(1)>>), Gte(StrV("a"))}}
    \cup {Query(<<Clause(StartPath, v)>>) :
            v \in {Gte(StrV("15:30")), Lte(StrV("08:00")), Lit(StrV("08:00"))}}
    \cup {Query(<<Clause(<<"max_participants">>, Gte(IntV(2))),
                  Clause(DaysPath, In(<<StrV("Sat")>>))>>),
          Query(<<Clause(<<"_id">>, Lit(StrV("a")))>>),
          Query(<<>>), NoQuery}

NextQuery ==
    \/ \E lit \in QueryLits : InsertOne(lit)
    \/ \E q \in FindQueries : Find(q)
    \/ \E q \in FindQueries : CountDocuments(q)
    \/ \E pipeline \in {<<>>} : Aggregate(pipeline)

SpecQuery == Init /\ [][NextQuery]_vars

-----------------------------------------------------------------------------
(* The module: backend selection, seed data, init_database *)

\* initial_activities as the source writes it, cut down to two activities,
\* one with a participant and room for one more, one with none.
SeedLit ==
    [a |-> [max_participants |-> IntV(2), participants |-> ListL(<<StrV("bob")>>)],
     b |-> [max_participants |-> IntV(1), participants |-> ListL(<<>>)]]

\* initial_teachers, cut down to two accounts and two fields.
initial_teachers ==
    <<[username |-> StrV("mchen"), role |-> StrV("teacher")],
      [username |-> StrV("principal"), role |-> StrV("admin")]>>

\* The seed mapping evaluated on an empty heap: [heap, seed].
RECURSIVE BuildSeed(_, _, _)
BuildSeed(h, names, acc) ==
    IF names = <<>> THEN [heap |-> h, seed |-> acc]
    ELSE LET b == Build(h, SeedLit[Head(names)])
         IN  BuildSeed(b.heap, Tail(names),
                       [k \in DOMAIN acc \cup {Head(names)} |->
                          IF k = Head(names) THEN b.doc ELSE acc[k]])

\* What an external database may hold when the connection is made: nothing
\* yet, or what an earlier run of the program stored.
DbContents ==
    [activities : {{}, Range(SeedOrder)},
     teachers : {{}, {initial_teachers[i]["username"].val : i \in DOMAIN initial_teachers}}]

\* The module as the interpreter starts on it: no handle bound, both stores
\* empty, the seed literals evaluated (they depend on nothing before them).
InitModule ==
    LET b == BuildSeed([a \in Addrs |-> FreeObj], SeedOrder, [k \in {} |-> EmptyDoc])
        c == Canonical(b.heap, [k \in {} |-> EmptyDoc], <<>>, {}, <<>>, b.seed)
    IN  /\ data = [k \in {} |-> EmptyDoc]
        /\ order = <<>>
        /\ heap = c.heap
        /\ known = {}
        /\ ret = Ret("init", NoneV, NoQuery, NoUpdate, <<>>, 0, "")
        /\ orig = [k \in {} |-> EmptyDoc]
        /\ ninserts = 0
        /\ pc = "import"
        /\ USE_MONGODB = FALSE
        /\ activities_collection = "unbound"
        /\ teachers_collection = "unbound"
        /\ initial_activities = c.seed
        /\ _teachers_data = [k \in {} |-> EmptyDoc]
        /\ db = NoDb
        /\ pending = Idle

\* What a step of the module body leaves alone.
Stores == <<data, order, heap, known, ret, orig, ninserts,
            initial_activities, _teachers_data, pending>>

\* Line 11: from pymongo import MongoClient; it may raise ImportError.
Import(ok) ==
    /\ pc = "import"
    /\ pc' = IF ok THEN "connect" ELSE "except"
    /\ UNCHANGED <<USE_MONGODB, activities_collection, teachers_collection, db, Stores>>

\* Line 13: MongoClient(...); it may raise.
Connect(ok) ==
    /\ pc = "connect"
    /\ pc' = IF ok THEN "ping" ELSE "except"
    /\ UNCHANGED <<USE_MONGODB, activities_collection, teachers_collection, db, Stores>>

\* Lines 15-19: the ping; if it answers, the handles are bound to the
\* database, found holding `found`; if it raises, nothing is bound.
Ping(ok, found) ==
    /\ pc = "ping"
    /\ IF ok
       THEN /\ activities_collection' = "pymongo"
            /\ teachers_collection' = "pymongo"
            /\ USE_MONGODB' = TRUE
            /\ db' = found
            /\ pc' = "select"
       ELSE /\ pc' = "except"
            /\ UNCHANGED <<USE_MONGODB, activities_collection, teachers_collection, db>>
    /\ UNCHANGED Stores

\* Lines 21-23: except Exception.
Except ==
    /\ pc = "except"
    /\ USE_MONGODB' = FALSE
    /\ pc' = "select"
    /\ UNCHANGED <<activities_collection, teachers_collection, db, Stores>>

\* The module body without the fallback of lines 24-134.
SelectNoFallback ==
    /\ pc = "select"
    /\ pc' = "done"
    /\ UNCHANGED <<USE_MONGODB, activities_collection, teachers_collection, db, Stores>>

\* Lines 24-26 and 133-134: if not USE_MONGODB, the handles are bound to
\* MockCollections over the two empty stores.
Select ==
    /\ pc = "select"
    /\ IF ~USE_MONGODB
       THEN /\ activities_collection' = "MockCollection"
            /\ teachers_collection' = "MockCollection"
       ELSE UNCHANGED <<activities_collection, teachers_collection>>
    /\ pc' = "done"
    /\ UNCHANGED <<USE_MONGODB, db, Stores>>

\* {"_id": key, **details}: a key of details named "_id" takes over.
Keyed(key, details) ==
    [f \in DOMAIN details \cup {"_id"} |->
       IF f \in DOMAIN details THEN details[f] ELSE key]

\* insert_one of each of the documents in turn: [data, order].
RECURSIVE InsertAll(_, _, _, _)
InsertAll(h, d, ord, documents) ==
    IF documents = <<>> THEN [data |-> d, order |-> ord]
    ELSE LET r == insert_one(h, d, ord, Head(documents))
         IN  InsertAll(h, r.data, r.order, Tail(documents))

\* The documents init_database inserts.
ActivityDocs(seed) ==
    [i \in DOMAIN SeedOrder |-> Keyed(StrV(SeedOrder[i]), seed[SeedOrder[i]])]

TeacherDocs ==
    [i \in DOMAIN initial_teachers |->
       Keyed(initial_teachers[i]["username"], initial_teachers[i])]

\* init_database without the tests of lines 146 and 151.
init_database_always(h, act, ord, tch, seed) ==
    [activities |-> InsertAll(h, act, ord, ActivityDocs(seed)),
     teachers   |-> InsertAll(h, tch, <<>>, TeacherDocs).data]

\* init_database() on the mock collections: [activities: [data, order],
\* teachers].
init_database(h, act, ord, tch, seed) ==
    [activities |-> IF count_documents(act, Query(<<>>)) = 0
                    THEN InsertAll(h, act, ord, ActivityDocs(seed))
                    ELSE [data |-> act, order |-> ord],
     teachers   |-> IF count_documents(tch, Query(<<>>)) = 0
                    THEN InsertAll(h, tch, <<>>, TeacherDocs).data
                    ELSE tch]

\* init_database() is called, on whichever backend the handles are bound
\* to; an external database is seeded by the same two tests.
InitDatabase ==
    /\ pc = "done"
    /\ ~pending.active
    /\ IF USE_MONGODB
       THEN /\ db' = [activities |-> IF db.activities = {}
                                     THEN Range(SeedOrder) ELSE db.activities,
                      teachers   |-> IF db.teachers = {}
                                     THEN {TeacherDocs[i]["_id"].val : i \in DOMAIN TeacherDocs}
                                     ELSE db.teachers]
            /\ ret' = Ret("init_database", NoneV, NoQuery, NoUpdate, <<>>, 0, "")
            /\ UNCHANGED <<data, order, heap, known, orig, ninserts,
                           initial_activities, _teachers_data>>
       ELSE LET r == init_database(StoreHeap, data, order, _teachers_data,
                                   initial_activities)
                seeded == DOMAIN r.activities.data \ DOMAIN data
            IN  /\ Settle(StoreHeap, r.activities.data, r.activities.order, known,
                          Ret("init_database", NoneV, NoQuery, NoUpdate, <<>>, 0, ""))
                /\ _teachers_data' = r.teachers
                /\ orig' = [k \in DOMAIN orig \cup seeded |->
                              IF k \in seeded
                              THEN DocVal(StoreHeap, r.activities.data[k]) ELSE orig[k]]
                /\ ninserts' = ninserts + Cardinality(seeded)
                /\ UNCHANGED db
    /\ UNCHANGED <<module, pending>>

\* teachers_collection.insert_one(document), on the mock collection.
TeacherInsert(document) ==
    /\ pc = "done"
    /\ teachers_collection = "MockCollection"
    /\ ~pending.active
    /\ _teachers_data' = insert_one(StoreHeap, _teachers_data, <<>>, document).data
    /\ Settle(StoreHeap, data, order, known,
              Ret("teachers.insert_one", DictGet(document, "_id"), NoQuery,
                  NoUpdate, <<>>, 0, ""))
    /\ UNCHANGED <<orig, ninserts, module, db, pending>>

(* Startup, seeding and signing up: the module body step by step, then     *)
(* init_database, inserts into either collection and updates of the        *)
(* participants in any order.                                              *)
NextModule ==
    \/ \E ok \in BOOLEAN : Import(ok)
    \/ \E ok \in BOOLEAN : Connect(ok)
    \/ \E ok \in BOOLEAN, found \in DbContents : Ping(ok, found)
    \/ Except
    \/ Select
    \/ InitDatabase
    \/ \E lit \in {WithIdLit(Roster, StrV("a"))} : InsertOne(lit)
    \/ \E document \in {TeacherDocs[1]} : TeacherInsert(document)
    \/ \E k \in Keys, u \in {Push("participants", "amy"), Pull("participants", "bob")} :
          UpdateOne(ById(k), u)
    \/ \E k \in {"a"} : FindOne(ById(k))

SpecModule == InitModule /\ [][NextModule]_vars

(* The same, with the interpreter going on through the module body: an     *)
(* except clause that is reached runs, and so does the statement after the *)
(* try.                                                                    *)
SpecStartup ==
    InitModule /\ [][NextModule]_vars /\ WF_vars(Except) /\ WF_vars(Select)

-----------------------------------------------------------------------------
(* Two threads on one collection.  MockCollection takes no lock, and the   *)
(* interpreter may switch threads between any two statements: update_one   *)
(* is entered, then runs one (field, value) pair of its loops at a time,   *)
(* then returns, and find_one of another thread may run in between.        *)

\* Lines 108-110: update_one is entered for a key that is stored.  before
\* and after keep the document as it is now and as the whole call leaves it.
UpdateBegin(query, update) ==
    /\ pc = "done"
    /\ activities_collection = "MockCollection"
    /\ ~pending.active
    /\ HasId(query) /\ IdOf(query) \in DOMAIN data
    /\ Len(update.push) <= Cardinality(FreeAddrs(StoreHeap))
    /\ LET k == IdOf(query)
           r == update_one(StoreHeap, data, query, update)
       IN  /\ \A a \in Addrs : r.heap[a].tag = "list" => Len(r.heap[a].val) <= MaxLen
           /\ pending' = [active |-> TRUE, key |-> k,
                          push |-> update.push, pull |-> update.pull,
                          before |-> DocVal(StoreHeap, data[k]),
                          after |-> DocVal(r.heap, r.data[k])]
           /\ Settle(StoreHeap, data, order, known,
                     Ret("update_one:enter", StrV(k), query, update, <<>>, 0, ""))
    /\ UNCHANGED <<orig, ninserts, module, _teachers_data, db>>

\* Lines 111-121, one statement further: the next pair of $push, else the
\* next pair of $pull, else the return.
UpdateStep ==
    /\ pending.active
    /\ LET k == pending.key
           s == IF pending.push # <<>>
                THEN PushStep(heap, data, k, Head(pending.push).field,
                              Head(pending.push).value)
                ELSE IF pending.pull # <<>>
                THEN PullStep(heap, data, k, Head(pending.pull).field,
                              Head(pending.pull).value)
                ELSE [heap |-> heap, data |-> data, err |-> ""]
           returns == pending.push = <<>> /\ pending.pull = <<>>
       IN  /\ pending' = IF returns \/ s.err # "" THEN Idle
                         ELSE IF pending.push # <<>>
                         THEN [pending EXCEPT !.push = Tail(pending.push)]
                         ELSE [pending EXCEPT !.pull = Tail(pending.pull)]
           /\ Settle(s.heap, s.data, order, known,
                     IF returns \/ s.err # ""
                     THEN Ret("update_one", StrV(k), ById(k), NoUpdate, <<>>,
                              IF s.err = "" THEN 1 ELSE 0, s.err)
                     ELSE ret)
           /\ orig' = [j \in DOMAIN orig \ {k} |-> orig[j]]
    /\ UNCHANGED <<ninserts, module, _teachers_data, db>>

\* find_one(query) of another thread, while update_one is under way.
FindOneDuring(query) ==
    /\ pending.active
    /\ HasId(query) /\ IdOf(query) \in DOMAIN data
          => CanCopy(Collect(heap, LiveRoots(data)), Refs(data[IdOf(query)]))
    /\ LET r == find_one(Collect(heap, LiveRoots(data)), data, query)
       IN  Settle(r.heap, data, order, known,
                  Ret("find_one", QueryKey(query), query, NoUpdate,
                      IF r.found THEN <<r.doc>> ELSE <<>>, 0, ""))
    /\ UNCHANGED <<orig, ninserts, module, _teachers_data, db, pending>>

ThreadUpdates ==
    {Update(<<Pair("participants", StrV("amy"))>>,
            <<Pair("participants", StrV("bob"))>>),
     Update(<<Pair("participants", StrV("amy")), Pair("waitlist", StrV("amy"))>>, <<>>),
     Push("participants", "amy")}

NextThreads ==
    \/ \E lit \in Under({Roster}) : InsertOne(lit)
    \/ \E k \in Keys, u \in ThreadUpdates : UpdateBegin(ById(k), u)
    \/ UpdateStep
    \/ \E k \in Keys : FindOneDuring(ById(k))
    \/ \E k \in Keys : FindOne(ById(k))

SpecThreads == Init /\ [][NextThreads]_vars

-----------------------------------------------------------------------------
(* What the claims speak of *)

\* The stored documents by value.
StoreVal(h, d) == [k \in DOMAIN d |-> DocVal(h, d[k])]

\* What find_one by key k would return, by value: <<>> for None.
ReadVal(h, d, k) ==
    LET r == find_one(Collect(h, StoreRoots(d)), d, ById(k))
    IN  IF r.found THEN <<DocVal(r.heap, r.doc)>> ELSE <<>>

\* What find() would return, by value.
FindVal(h, d, ord) ==
    LET r == find(Collect(h, StoreRoots(d)), d, ord, NoQuery)
    IN  [i \in DOMAIN r.docs |-> DocVal(r.heap, r.docs[i])]

\* The call just made was op with a filter naming key k.
Called(op, k) == ret.op = op /\ ret.key = StrV(k)

(* C1: insert/find_one round trip.  After insert_one(D) with "_id" in D,   *)
(* find_one by D's key returns D, whatever was done to other keys since:   *)
(* orig holds D from the insert until the key itself is updated.           *)
C1_RoundTrip ==
    \A k \in DOMAIN orig :
        Called("find_one", k) =>
            /\ ret.docs # <<>>
            /\ DocVal(heap, ret.docs[1]) = orig[k]

(* C2: read isolation.  When the caller changes, in place, an object of a  *)
(* document that find_one or find returned, the stored documents keep      *)
(* their values and find_one and find return what they returned before.    *)
C2_ReadIsolation ==
    [][ret'.op = "mutate" =>
          /\ StoreVal(heap', data') = StoreVal(heap, data)
          /\ \A k \in Keys : ReadVal(heap', data', k) = ReadVal(heap, data, k)
          /\ FindVal(heap', data', order') = FindVal(heap, data, order)]_vars

\* A returned document whose nested schedule or participants the caller has
\* changed, so that it differs from the stored one.
C2_Witness ==
    /\ ret.op = "mutate"
    /\ \E i \in DOMAIN ret.docs :
         LET k == ret.docs[i]["_id"].val
         IN  \/ Val(heap, ret.docs[i]["schedule_details"])
                   # Val(heap, data[k]["schedule_details"])
             \/ Val(heap, ret.docs[i]["participants"])
                   # Val(heap, data[k]["participants"])

\* The update of the call just made is a single $pull / a single $push.
IsPull(u) == u.push = <<>> /\ Len(u.pull) = 1
IsPush(u) == u.pull = <<>> /\ Len(u.push) = 1

\* The items of list field f of stored document k.
Items(h, d, k, f) == h[d[k][f].val].val

HasList(h, d, k, f) == f \in DOMAIN d[k] /\ IsList(h, d[k][f])

(* C3: $pull removes every occurrence.  After update_one with $pull of V   *)
(* from list field F of a stored document, F holds no V and the other      *)
(* items in their order; without F or V the document is unchanged.         *)
C3_PullRemovesAll ==
    [][\A k \in DOMAIN data :
          (ret'.op = "update_one" /\ ret'.key = StrV(k) /\ IsPull(ret'.update)
             /\ ret'.err = "")
          => LET f == ret'.update.pull[1].field
                 v == ret'.update.pull[1].value
             IN  IF HasList(heap, data, k, f)
                 THEN /\ HasList(heap', data', k, f)
                      /\ Items(heap', data', k, f)
                           = RemoveAll(Items(heap, data, k, f), v)
                 ELSE DocVal(heap', data'[k]) = DocVal(heap, data[k])]_vars

(* C4: $push appends exactly once.  After update_one with $push of V on    *)
(* field F of stored document k, F is its previous list followed by one V  *)
(* ([V] if F did not exist); no other field of k and no other document     *)
(* changes.                                                                *)
C4_PushAppendsOnce ==
    [][\A k \in DOMAIN data :
          (ret'.op = "update_one" /\ ret'.key = StrV(k) /\ IsPush(ret'.update)
             /\ ret'.err = "")
          => LET f == ret'.update.push[1].field
                 v == ret'.update.push[1].value
                 before == IF f \in DOMAIN data[k]
                           THEN Items(heap, data, k, f) ELSE <<>>
             IN  /\ DOMAIN data' = DOMAIN data
                 /\ DOMAIN data'[k] = DOMAIN data[k] \cup {f}
                 /\ HasList(heap', data', k, f)
                 /\ Items(heap', data', k, f) = Append(before, v)
                 /\ \A g \in DOMAIN data[k] \ {f} :
                       Val(heap', data'[k][g]) = Val(heap, data[k][g])
                 /\ \A j \in DOMAIN data \ {k} :
                       DocVal(heap', data'[j]) = DocVal(heap, data[j])]_vars

(* C5: count tracks inserts.  count_documents({}) is the number of         *)
(* insert_one calls that stored their document.                            *)
C5_CountTracksInserts ==
    ret.op = "count_documents" /\ ret.query = Query(<<>>) => ret.n = ninserts

(* C6: count honours its filter.  count_documents(filter) is the number of *)
(* documents find(filter) returns.                                         *)
C6_CountHonoursFilter ==
    ret.op = "count_documents" =>
        LET r == find(StoreHeap, data, order, ret.query)
        IN  r.err = "" => ret.n = Len(r.docs)

(* C7: operations on a key that is not stored are harmless.  update_one    *)
(* and find_one by a key that is not stored, or by a filter without "_id", *)
(* raise nothing, return modified_count 0 and None, and leave the          *)
(* collection as it was: no document is created.                           *)
C7_AbsentKeyHarmless ==
    [][(/\ ret'.op \in {"update_one", "find_one"}
        /\ (ret'.key.tag = "none" \/ ret'.key.val \notin DOMAIN data))
       => /\ ret'.err = ""
          /\ ret'.n = 0
          /\ ret'.docs = <<>>
          /\ order' = order
          /\ StoreVal(heap', data') = StoreVal(heap, data)]_vars

\* A $push by a key that is not stored, beside a document that is.
C7_Witness ==
    /\ Called("update_one", "b")
    /\ ret.update.push # <<>>
    /\ ret.n = 0
    /\ DOMAIN data = {"a"}

(* C8: insert without a key is a silent no-op.  insert_one of a document   *)
(* without "_id" raises nothing and leaves keys, documents and count as    *)
(* they were.                                                              *)
C8_InsertWithoutKeyNoOp ==
    [][(ret'.op = "insert_one" /\ ret'.key.tag = "none")
       => /\ ret'.err = ""
          /\ order' = order
          /\ StoreVal(heap', data') = StoreVal(heap, data)
          /\ count_documents(data', Query(<<>>)) = count_documents(data, Query(<<>>))]_vars

\* An insert without "_id" into a collection that holds a document.
C8_Witness ==
    /\ ret.op = "insert_one"
    /\ ret.key.tag = "none"
    /\ DOMAIN data # {}

\* The value a path leads to in a document given by value: <<v>>, or <<>>
\* when a part is missing or the value on the way is no mapping.
RECURSIVE PureAt(_, _)
PureAt(v, parts) ==
    IF parts = <<>> THEN <<v>>
    ELSE IF v.tag = "dict" /\ Head(parts) \in DOMAIN v.val
    THEN PureAt(v.val[Head(parts)], Tail(parts))
    ELSE <<>>

\* Stored document k as find presents it, by value.
Shown(k) == DocVal(heap, WithId(data[k], k))

At(k, path) == PureAt([tag |-> "dict", val |-> Shown(k)], path)

\* find returned, by value and in insertion order, the documents of S.
ReturnedExactly(S) ==
    LET InS(k) == k \in S
        want == SelectSeq(order, InS)
    IN  /\ Len(ret.docs) = Len(want)
        /\ \A i \in DOMAIN want : DocVal(heap, ret.docs[i]) = Shown(want[i])

\* The query of the call just made is one clause with the one operator op.
OneOp(op) ==
    /\ ~ret.query.none
    /\ Len(ret.query.items) = 1
    /\ ret.query.items[1].value.tag = "ops"
    /\ DOMAIN ret.query.items[1].value.val = {op}

ThePath == ret.query.items[1].key
TheArg(op) == ret.query.items[1].value.val[op]

AtLeast(x, v) ==
    IF v.tag = "int" THEN x.val >= v.val ELSE StrRank(x.val) >= StrRank(v.val)

\* Every stored value at the path of the query is of the type of v.
Comparable(v) ==
    /\ v.tag \in {"int", "str"}
    /\ \A k \in DOMAIN data : At(k, ThePath) # <<>> => At(k, ThePath)[1].tag = v.tag

Satisfies(k, c) == MatchClause(heap, WithId(data[k], k), c) = "true"

(* C11: conjunction of clauses.  A find that returns does so with exactly  *)
(* the stored documents that satisfy every clause of the filter, each      *)
(* clause taken on its own; a filter without clauses and an omitted filter *)
(* return every stored document.                                           *)
C11_Conjunction ==
    (ret.op = "find" /\ ret.err = "")
    => ReturnedExactly({k \in DOMAIN data :
          \A i \in DOMAIN ret.query.items : Satisfies(k, ret.query.items[i])})

\* A filter of two clauses over two documents that both satisfy the first
\* clause, of which one satisfies the second: that one alone is returned.
C11_Witness ==
    /\ ret.op = "find"
    /\ ret.err = ""
    /\ ~ret.query.none
    /\ Len(ret.query.items) = 2
    /\ Cardinality(DOMAIN data) = 2
    /\ Len(ret.docs) = 1
    /\ \A k \in DOMAIN data : Satisfies(k, ret.query.items[1])
    /\ \E k \in DOMAIN data : ~Satisfies(k, ret.query.items[2])

\* The path of clause c leads nowhere in the document value doc: a part is
\* missing, or reached through something that is no mapping.
Unresolved(doc, c) == PureAt([tag |-> "dict", val |-> doc], c.key) = <<>>

(* C12: unresolvable paths exclude, never fail.  find returns no document  *)
(* in which the path of a clause (top-level or dotted, literal or operator *)
(* clause) cannot be resolved; an exception comes only from a clause whose *)
(* path resolves in some document; and a clause value is evaluated against *)
(* a top-level field exactly as against the end of a dotted path.          *)
C12_UnresolvedExcludes ==
    (ret.op = "find" /\ ~ret.query.none)
    => /\ \A i \in DOMAIN ret.docs, j \in DOMAIN ret.query.items :
             ~Unresolved(DocVal(heap, ret.docs[i]), ret.query.items[j])
       /\ ret.err # ""
             => \E k \in DOMAIN data, j \in DOMAIN ret.query.items :
                   ~Unresolved(Shown(k), ret.query.items[j])
       /\ \A k \in DOMAIN data, j \in DOMAIN ret.query.items :
             \A f \in DOMAIN data[k] :
             CheckTop(heap, data[k], f, ret.query.items[j].value)
                = CheckNested(heap, data[k][f], ret.query.items[j].value)

\* An operator clause on schedule_details.days over a document whose
\* schedule_details is a number and one whose days match: the call returns
\* the second one alone.
C12_Witness ==
    /\ ret.op = "find"
    /\ ret.err = ""
    /\ ret.query = Query(<<Clause(DaysPath, In(<<StrV("Fri"), StrV("Mon")>>))>>)
    /\ Len(ret.docs) = 1
    /\ \E k \in DOMAIN data :
          /\ "schedule_details" \in DOMAIN data[k]
          /\ data[k]["schedule_details"] = IntV(0)

\* The list at schedule_details.days of stored document k, <<>> if none.
DaysAt(k) ==
    IF At(k, DaysPath) # <<>> /\ At(k, DaysPath)[1].tag = "list"
    THEN At(k, DaysPath)[1].val ELSE <<>>

\* Where a stored document has schedule_details it is a mapping, and where
\* that has days it is a list of strings.
DaysWellFormed ==
    \A k \in DOMAIN data :
       /\ At(k, <<"schedule_details">>) # <<>>
             => At(k, <<"schedule_details">>)[1].tag = "dict"
       /\ At(k, DaysPath) # <<>>
             => /\ At(k, DaysPath)[1].tag = "list"
                /\ \A i \in DOMAIN DaysAt(k) : DaysAt(k)[i].tag = "str"

\* aggregate returned one {_id: day} per day of the stored documents, in
\* ascending order.
DaysReturned ==
    /\ ret.err = ""
    /\ \A i \in DOMAIN ret.docs : DOMAIN ret.docs[i] = {"_id"}
    /\ {ret.docs[i]["_id"] : i \in DOMAIN ret.docs}
          = UNION {Range(DaysAt(k)) : k \in DOMAIN data}
    /\ \A i \in DOMAIN ret.docs, j \in DOMAIN ret.docs :
          i < j => StrRank(ret.docs[i]["_id"].val) < StrRank(ret.docs[j]["_id"].val)

TeachersSeeded ==
    /\ DOMAIN _teachers_data =
          {initial_teachers[i]["username"].val : i \in DOMAIN initial_teachers}
    /\ \A i \in DOMAIN initial_teachers :
          _teachers_data[initial_teachers[i]["username"].val] = initial_teachers[i]

(* C14: seeding is conditional and idempotent.  A call of init_database    *)
(* puts the seed documents into a collection that is empty at that moment  *)
(* and leaves a collection that holds anything exactly as it is, each of   *)
(* the two collections on its own; so a further call, also after updates,  *)
(* changes nothing.  The same holds for the keys of an external database.  *)
C14_SeedingIdempotent ==
    [][ret'.op = "init_database"
       => /\ (~USE_MONGODB /\ DOMAIN data = {})
                => /\ order' = SeedOrder
                   /\ \A k \in DOMAIN data' :
                         DocVal(heap', data'[k]) = DocVal(heap, initial_activities[k])
          /\ (~USE_MONGODB /\ DOMAIN data # {})
                => /\ order' = order
                   /\ StoreVal(heap', data') = StoreVal(heap, data)
          /\ (~USE_MONGODB /\ DOMAIN _teachers_data = {}) => TeachersSeeded'
          /\ (~USE_MONGODB /\ DOMAIN _teachers_data # {})
                => _teachers_data' = _teachers_data
          /\ USE_MONGODB
                => /\ db'.activities = IF db.activities = {}
                                       THEN Range(SeedOrder) ELSE db.activities
                   /\ db.teachers # {} => db'.teachers = db.teachers
                   /\ db.teachers = {} => db'.teachers # {}]_vars

\* init_database called on a seeded collection in which a participant has
\* signed up since: both seeds are there, and so is the new participant.
C14_Witness ==
    /\ ret.op = "init_database"
    /\ ~USE_MONGODB
    /\ DOMAIN data = Range(SeedOrder)
    /\ Val(heap, data["a"]["participants"]).val = <<StrV("bob"), StrV("amy")>>
    /\ TeachersSeeded

\* The two modes: both handles on the external database, or both on the
\* in-memory collections.
ModeMongo ==
    /\ USE_MONGODB
    /\ activities_collection = "pymongo"
    /\ teachers_collection = "pymongo"

ModeMock ==
    /\ ~USE_MONGODB
    /\ activities_collection = "MockCollection"
    /\ teachers_collection = "MockCollection"

(* C15: backend selection.  Once the module body has run, one of the two   *)
(* modes holds (they exclude one another); a failure of the import, the    *)
(* connection or the ping leads to the in-memory mode with both handles    *)
(* bound; and from then on no store operation and no init_database call    *)
(* changes the mode or a handle.                                           *)
C15_BackendSelection ==
    /\ [](pc = "done" => (ModeMongo \/ ModeMock) /\ ~(ModeMongo /\ ModeMock))
    /\ [][pc = "done" => UNCHANGED module]_vars
    /\ (pc = "except") ~> (pc = "done" /\ ModeMock)

\* After a failed startup, a participant has been added through the
\* in-memory collection, which is still the backend.
C15_Witness ==
    /\ pc = "done"
    /\ ModeMock
    /\ ret.op = "update_one"
    /\ ret.n = 1

(* C16: updates are atomic to readers.  A find_one that runs while another *)
(* thread is inside update_one on the same key returns the document as it  *)
(* was before the whole update or as it is after the whole update.         *)
C16_AtomicToReaders ==
    (/\ pending.active
     /\ ret.op = "find_one"
     /\ ret.key = StrV(pending.key)
     /\ ret.docs # <<>>)
    => WithoutId(DocVal(heap, ret.docs[1])) \in {pending.before, pending.after}

\* No item occurs twice in the sequence.
NoRepeat(items) ==
    \A i \in DOMAIN items, j \in DOMAIN items : items[i] = items[j] => i = j

(* C17: participants invariant.  In every state reached from the seeded    *)
(* collection, the participants of each activity that has a capacity are   *)
(* all different and no more than max_participants.                        *)
C17_ParticipantsInvariant ==
    \A k \in DOMAIN data :
       (/\ At(k, <<"participants">>) # <<>>
        /\ At(k, <<"participants">>)[1].tag = "list"
        /\ At(k, <<"max_participants">>) # <<>>
        /\ At(k, <<"max_participants">>)[1].tag = "int")
       => /\ NoRepeat(At(k, <<"participants">>)[1].val)
          /\ Len(At(k, <<"participants">>)[1].val)
                <= At(k, <<"max_participants">>)[1].val

(* C19: write isolation from the inserted document.  The seed mapping      *)
(* initial_activities keeps the value the source gives it, whatever is     *)
(* done to the collection that init_database filled from it.               *)
C19_SeedUntouched ==
    \A k \in DOMAIN initial_activities :
       DocVal(heap, initial_activities[k]) = SeedLit[k]

(* C18: document lifecycle.  No step removes a key from the collection,    *)
(* and no step other than update_one changes the document stored under a   *)
(* key; insert_one with a key that is stored leaves its document alone.    *)
C18_DocumentLifecycle ==
    [][/\ DOMAIN data \subseteq DOMAIN data'
       /\ ret'.op # "update_one"
             => \A k \in DOMAIN data :
                   DocVal(heap', data'[k]) = DocVal(heap, data[k])]_vars

(* C20: the modification count tells whether the key exists.  update_one   *)
(* returns modified_count 1 exactly when its filter has an _id that is     *)
(* stored, and 0 otherwise, whether or not the document is different       *)
(* afterwards.                                                             *)
C20_CountReflectsKey ==
    (ret.op = "update_one" /\ ret.err = "")
    => (ret.n = 1 <=> (HasId(ret.query) /\ IdOf(ret.query) \in DOMAIN data))
       /\ ret.n \in {0, 1}

\* A $pull of a value that is not in the list, and an update without
\* operators, on a stored key: nothing to change, and 1 is reported.
C20_Witness ==
    /\ ret.op = "update_one"
    /\ ret.n = 1
    /\ ret.update \in {Pull("participants", "amy"), NoUpdate}
    /\ ret.key.tag = "str"
    /\ At(ret.key.val, <<"participants">>) = <<ListL(<<StrV("bob")>>)>>

====
